---- MODULE Spec2Model ----
(***************************************************************************)
(* Payment lifecycle of backend_style_hub: PaymentsService (processPayment *)
(* and refundPayment), the Stripe and PayPal gateway clients as far as     *)
(* their results shape the stored Payment, and the two webhook handlers.   *)
(* The payments and orders collections are the state; every handler is an  *)
(* action.  Spec runs each handler as one step (requests served one after  *)
(* the other); SpecConc splits every handler at its awaits, so that the    *)
(* reads and writes of concurrent requests interleave.                     *)
(***************************************************************************)
EXTENDS Integers, Sequences, FiniteSets, TLC

VARIABLES payments, orders, nextTxn, everSettled, last, procs, served,
          hook, shop, lru

payVars == <<payments, orders, nextTxn, everSettled, last, procs, served>>

\* hook: the last call of StripeService.verifyWebhook; shop: the products,
\* carts and orders of OrdersService; lru: one LRUCacheStrategy and its clock
vars == <<payments, orders, nextTxn, everSettled, last, procs, served,
          hook, shop, lru>>

(***************************************************************************)
(* Bounds                                                                  *)
(***************************************************************************)
MaxPayments == 2
MaxTxn == 1
NumOrders == 1
MaxRefundId == 1
MaxProcs == 2
\* the number of requests served in a run
MaxRequests == 4

(***************************************************************************)
(* Values                                                                  *)
(***************************************************************************)
PENDING == "pending"
PROCESSING == "processing"
COMPLETED == "completed"
FAILED == "failed"
CANCELLED == "cancelled"
REFUNDED == "refunded"
PaymentStatus == {PENDING, PROCESSING, COMPLETED, FAILED, CANCELLED, REFUNDED}

PAID == "paid"
OrderPaymentStatus == {PENDING, PAID, FAILED, REFUNDED}

STRIPE == "stripe"
PAYPAL == "paypal"
CREDIT_CARD == "credit_card"
PaymentMethod == {STRIPE, PAYPAL, CREDIT_CARD}

\* an absent id, amount or reference
Absent == 0
\* an absent failureReason / error message
NoReason == "none"

\* no call of verifyWebhook made, no shop opened, no cache built
NoCall == [phase |-> "none"]
NoShop == [phase |-> "none"]
NoCache == [phase |-> "none"]

Orders == 1..NumOrders
RefundIds == 1..MaxRefundId

\* the amount of every order, in currency units
TotalAmount == 2

\* Ids the gateways hand out.  The k-th object a gateway creates is intent k
\* (Stripe) or PayPal order OrderIdOf(k); the capture of a PayPal order and
\* the charge of an intent have ids of their own, so ids of different kinds
\* never coincide.
IntentIds == 1..MaxTxn
OrderIdOf(k) == MaxTxn + k
PayPalOrderIds == {OrderIdOf(k) : k \in 1..MaxTxn}
CaptureOf(o) == MaxTxn + o
CaptureIds == {CaptureOf(o) : o \in PayPalOrderIds}
ChargeOf(k) == 3 * MaxTxn + k
ChargeIds == {ChargeOf(k) : k \in IntentIds}

\* the paths of gatewayResponse that the lookups read:
\* id, charges.data[].id, purchase_units[].payments.captures[].id
NoResponse == [id |-> Absent, charge |-> Absent, capture |-> Absent]

(***************************************************************************)
(* Stored documents                                                        *)
(***************************************************************************)
\* new this.paymentModel({...}) of processPayment: status PROCESSING, not
\* yet saved
NewPayment(orderId, method) ==
  [orderId |-> orderId, method |-> method, amount |-> TotalAmount,
   status |-> PROCESSING, transactionId |-> Absent,
   gatewayResponse |-> NoResponse, failureReason |-> NoReason,
   refundId |-> Absent, refundAmount |-> Absent]

PaymentFields ==
  {"orderId", "method", "amount", "status", "transactionId",
   "gatewayResponse", "failureReason", "refundId", "refundAmount"}

\* document.save() of an already stored document: only the paths whose value
\* differs from the loaded one are written
Save(stored, loaded, doc) ==
  [f \in PaymentFields |-> IF doc[f] # loaded[f] THEN doc[f] ELSE stored[f]]

\* Model.findOne(filter): the first stored document matching, 0 for null
\* (Match is given the position of the document in the collection)
FindOne(ps, Match(_)) ==
  IF \E i \in 1..Len(ps) : Match(i)
  THEN CHOOSE i \in 1..Len(ps) : Match(i) /\ \A j \in 1..(i - 1) : ~Match(j)
  ELSE 0

(***************************************************************************)
(* Gateway clients                                                         *)
(***************************************************************************)
\* What Stripe answers to POST /payment_intents: a 2xx with the intent (its
\* status, and its charges when the API version lists them) or no 2xx
\* (declined, refused, timeout, transport error).
StripeIntentResponses ==
  [ok : {TRUE}, status : {"succeeded", "requires_action"}, charges : BOOLEAN]
  \cup [ok : {FALSE}, status : {"error"}, charges : {FALSE}]

createPaymentIntent(resp, id) ==
  IF resp.ok
  THEN [success |-> resp.status = "succeeded",
        paymentIntentId |-> id,
        requiresAction |-> resp.status = "requires_action",
        data |-> [id |-> id,
                  charge |-> IF resp.charges THEN ChargeOf(id) ELSE Absent,
                  capture |-> Absent],
        error |-> NoReason]
  ELSE [success |-> FALSE, paymentIntentId |-> Absent,
        requiresAction |-> FALSE, data |-> NoResponse,
        error |-> "stripe_error"]

\* POST /refunds
StripeRefundResponses ==
  [ok : {TRUE}, status : {"succeeded", "pending"}, id : RefundIds]
  \cup [ok : {FALSE}, status : {"error"}, id : {Absent}]

createRefund(resp) ==
  IF resp.ok
  THEN [success |-> resp.status = "succeeded", refundId |-> resp.id]
  ELSE [success |-> FALSE, refundId |-> Absent]

\* POST /v2/checkout/orders
PayPalCreateResponses ==
  {[ok |-> TRUE, status |-> "CREATED", charges |-> FALSE],
   [ok |-> FALSE, status |-> "error", charges |-> FALSE]}

createOrder(resp, id) ==
  IF resp.ok
  THEN [success |-> TRUE, orderId |-> id,
        data |-> [id |-> id, charge |-> Absent, capture |-> Absent],
        error |-> NoReason]
  ELSE [success |-> FALSE, orderId |-> Absent, data |-> NoResponse,
        error |-> "paypal_error"]

\* POST /v2/checkout/orders/{id}/capture
PayPalCaptureResponses ==
  [ok : {TRUE}, status : {"COMPLETED", "PENDING"}, charges : {FALSE}]
  \cup [ok : {FALSE}, status : {"error"}, charges : {FALSE}]

captureOrder(orderId, resp) ==
  IF resp.ok
  THEN [success |-> resp.status = "COMPLETED",
        transactionId |-> orderId,
        data |-> [id |-> orderId, charge |-> Absent,
                  capture |-> CaptureOf(orderId)],
        error |-> IF resp.status = "COMPLETED" THEN NoReason
                  ELSE "capture_failed"]
  ELSE [success |-> FALSE, transactionId |-> Absent, data |-> NoResponse,
        error |-> "paypal_error"]

\* POST /v2/payments/captures/{id}/refund
PayPalRefundResponses ==
  [ok : {TRUE}, status : {"COMPLETED", "PENDING"}, id : RefundIds]
  \cup [ok : {FALSE}, status : {"error"}, id : {Absent}]

refundCapture(resp) ==
  IF resp.ok
  THEN [success |-> resp.status = "COMPLETED", refundId |-> resp.id]
  ELSE [success |-> FALSE, refundId |-> Absent]

(***************************************************************************)
(* PaymentsService                                                         *)
(***************************************************************************)
\* paymentDetails of a processPayment request: the approved PayPal order id
\* (Absent when none is given)
PaymentDetails == [paypalOrderId : {Absent} \cup PayPalOrderIds]

\* the gateway's answer to the one outbound call processPayment makes
GatewayResponses(method, details) ==
  CASE method = STRIPE -> StripeIntentResponses
    [] method = PAYPAL /\ details.paypalOrderId # Absent ->
         PayPalCaptureResponses
    [] method = PAYPAL /\ details.paypalOrderId = Absent ->
         PayPalCreateResponses
    [] OTHER -> {[ok |-> FALSE, status |-> "none", charges |-> FALSE]}

\* does the answer carry an id the gateway has newly assigned
AssignsId(method, details, resp) ==
  /\ resp.ok
  /\ \/ method = STRIPE
     \/ method = PAYPAL /\ details.paypalOrderId = Absent

processPayPalPayment(details, resp, id) ==
  IF details.paypalOrderId # Absent
  THEN LET result == captureOrder(details.paypalOrderId, resp)
       IN  [success |-> result.success,
            transactionId |-> result.transactionId,
            data |-> result.data, error |-> result.error]
  ELSE LET result == createOrder(resp, OrderIdOf(id))
       IN  [success |-> FALSE, transactionId |-> result.orderId,
            data |-> result.data, error |-> result.error]

processStripePayment(resp, id) ==
  LET result == createPaymentIntent(resp, id)
  IN  [success |-> result.success, transactionId |-> result.paymentIntentId,
       data |-> result.data, error |-> result.error]

\* the check of lines 166-169 alone: an order already paid is let through
ProcessPaymentCheckOwnerOnly(os, orderId, owns) ==
  IF orderId \notin Orders \/ ~owns THEN "NotFound" ELSE "ok"

\* lines 166-173: the order must exist, belong to the caller and not be paid
ProcessPaymentCheck(os, orderId, owns) ==
  IF orderId \notin Orders \/ ~owns THEN "NotFound"
  ELSE IF os[orderId].paymentStatus = PAID THEN "BadRequest"
  ELSE "ok"

\* lines 179-216 and 269-272: the document processPayment saves, from the
\* gateway's answer (an unsupported method throws and is stored FAILED)
ProcessedPayment(orderId, method, details, resp, id) ==
  IF method \notin {STRIPE, PAYPAL}
  THEN [NewPayment(orderId, method) EXCEPT
          !.status = FAILED, !.failureReason = "unsupported_method"]
  ELSE LET result == IF method = PAYPAL
                     THEN processPayPalPayment(details, resp, id)
                     ELSE processStripePayment(resp, id)
       IN  [NewPayment(orderId, method) EXCEPT
              !.transactionId = result.transactionId,
              !.gatewayResponse = result.data,
              !.status = IF result.success THEN COMPLETED ELSE FAILED,
              !.failureReason = IF result.success THEN NoReason
                                ELSE result.error]

\* a weaker guard than RefundGuard: only an already refunded payment is refused
RefundGuardNotRefunded(payment) == payment.status # REFUNDED

\* lines 381-383
RefundGuard(payment) == payment.status = COMPLETED

\* lines 439-452: the capture id a PayPal refund is issued for
RefundCaptureId(payment) ==
  IF payment.gatewayResponse.capture # Absent
  THEN payment.gatewayResponse.capture
  ELSE payment.gatewayResponse.id

\* can refundPayment reach the gateway for this payment (lines 392-409)
RefundReachesGateway(payment) ==
  \/ payment.method = STRIPE
  \/ payment.method = PAYPAL /\ RefundCaptureId(payment) # Absent

RefundResponses(payment) ==
  IF payment.method = STRIPE THEN StripeRefundResponses
  ELSE PayPalRefundResponses

\* the refund request's amount: Absent when the caller gives none
RefundAmounts == 0..(TotalAmount + 1)

\* refundPayment that takes every answer of the gateway for a refund made
RefundedPaymentAnswered(payment, amount, resp) ==
  LET refundAmount == IF amount # Absent THEN amount ELSE payment.amount
      result == IF payment.method = STRIPE THEN createRefund(resp)
                ELSE refundCapture(resp)
  IN  IF resp.ok
      THEN [payment EXCEPT !.refundId = result.refundId,
                           !.refundAmount = refundAmount,
                           !.status = REFUNDED]
      ELSE payment

\* refundPayment that records the payment's amount whatever amount is asked
RefundedPaymentFull(payment, amount, resp) ==
  LET result == IF payment.method = STRIPE THEN createRefund(resp)
                ELSE refundCapture(resp)
  IN  IF result.success
      THEN [payment EXCEPT !.refundId = result.refundId,
                           !.refundAmount = payment.amount,
                           !.status = REFUNDED]
      ELSE payment

\* lines 385-416: the document refundPayment saves on a successful refund
RefundedPayment(payment, amount, resp) ==
  LET refundAmount == IF amount # Absent THEN amount ELSE payment.amount
      result == IF payment.method = STRIPE THEN createRefund(resp)
                ELSE refundCapture(resp)
  IN  IF result.success
      THEN [payment EXCEPT !.refundId = result.refundId,
                           !.refundAmount = refundAmount,
                           !.status = REFUNDED]
      ELSE payment

(***************************************************************************)
(* Webhook events                                                          *)
(***************************************************************************)
\* The fields of an event the handlers read.  key: the intent, PayPal order
\* or charge the event is about; cap: the capture (resource.id, or the "up"
\* link of a refund); custom: custom_id, a paymentId; rid: the refund id;
\* amt: the refund amount in cents; flag: failure_message is present
\* (charge.failed), status is 'won' (dispute.updated), status is 'failed'
\* (refund.updated).
Event(type, key, cap, custom, rid, amt, flag) ==
  [type |-> type, key |-> key, cap |-> cap, custom |-> custom, rid |-> rid,
   amt |-> amt, flag |-> flag]

NoEvent == Event("none", Absent, Absent, Absent, Absent, Absent, FALSE)

\* refund amounts a provider reports, in cents: less than, and more than,
\* the amount of the payment
RefundCents == {100, 100 * (TotalAmount + 1)}

StripeEventsOf(type) ==
  CASE type \in {"payment_intent.succeeded", "payment_intent.payment_failed",
                 "payment_intent.requires_action", "payment_intent.canceled",
                 "charge.succeeded"} ->
         {Event(type, k, Absent, Absent, Absent, Absent, FALSE) :
            k \in IntentIds}
    [] type = "charge.failed" ->
         {Event(type, k, Absent, Absent, Absent, Absent, f) :
            k \in IntentIds, f \in BOOLEAN}
    [] type = "charge.dispute.created" ->
         {Event(type, c, Absent, Absent, Absent, Absent, FALSE) :
            c \in ChargeIds}
    [] type = "charge.dispute.updated" ->
         {Event(type, c, Absent, Absent, Absent, Absent, f) :
            c \in ChargeIds, f \in BOOLEAN}
    [] type = "refund.created" ->
         {Event(type, k, Absent, Absent, r, a, FALSE) :
            k \in IntentIds, r \in RefundIds, a \in RefundCents}
    [] type = "refund.updated" ->
         {Event(type, k, Absent, Absent, r, Absent, f) :
            k \in IntentIds, r \in RefundIds, f \in BOOLEAN}
    [] OTHER -> {Event(type, Absent, Absent, Absent, Absent, Absent, FALSE)}

PayPalEventsOf(type) ==
  CASE type \in {"CHECKOUT.ORDER.APPROVED", "CHECKOUT.ORDER.VOIDED"} ->
         {Event(type, o, Absent, Absent, Absent, Absent, FALSE) :
            o \in PayPalOrderIds}
    [] type = "PAYMENT.CAPTURE.COMPLETED" ->
         {Event(type, o, c, p, Absent, Absent, FALSE) :
            o \in PayPalOrderIds, c \in CaptureIds, p \in 0..MaxPayments}
    [] type \in {"PAYMENT.CAPTURE.DENIED", "PAYMENT.CAPTURE.PENDING"} ->
         {Event(type, o, c, Absent, Absent, Absent, FALSE) :
            o \in PayPalOrderIds, c \in CaptureIds}
    [] type = "PAYMENT.CAPTURE.REFUNDED" ->
         {Event(type, Absent, c, Absent, r, a, FALSE) :
            c \in CaptureIds, r \in RefundIds, a \in RefundCents}
    [] type = "PAYMENT.CAPTURE.REVERSED" ->
         {Event(type, Absent, c, Absent, Absent, Absent, FALSE) :
            c \in CaptureIds}
    [] OTHER -> {Event(type, Absent, Absent, Absent, Absent, Absent, FALSE)}

(***************************************************************************)
(* What a webhook handler decides from the documents it has read:          *)
(* found, the document it loaded (0: none); doc, that document as the      *)
(* handler leaves it before save(); order, the paymentStatus it writes to  *)
(* the order ("none": no order update); orderFirst, the order is updated   *)
(* before the payment is saved; notify, the notification it sends; emit,   *)
(* it emits payment.processed; status, the status it answers.              *)
(***************************************************************************)
NoDoc == NewPayment(Absent, "none")

Effect(found, doc, order, orderFirst, notify, emit, status) ==
  [found |-> found, doc |-> doc, order |-> order, orderFirst |-> orderFirst,
   notify |-> notify, emit |-> emit, status |-> status]

NoPayment(status) == Effect(0, NoDoc, "none", FALSE, "none", FALSE, status)

Untouched(ps, i) ==
  Effect(i, ps[i], "none", FALSE, "none", FALSE, "processed")

\* amount / 100 (Stripe) and parseFloat(amount.value) (PayPal, "n.00") of
\* an amount given in cents
FromCents(amt) == amt \div 100

(***************************************************************************)
(* StripeWebhookHandler                                                    *)
(***************************************************************************)
\* handlePaymentIntentSucceeded without its check of the stored status
PaymentIntentSucceededUnguarded(ps, ev) ==
  LET i == FindOne(ps, LAMBDA j : ps[j].transactionId = ev.key)
  IN  IF i = 0 THEN NoPayment("payment_not_found")
      ELSE Effect(i, [ps[i] EXCEPT !.status = COMPLETED],
                  PAID, FALSE, "success", TRUE, "processed")

handlePaymentIntentSucceeded(ps, ev) ==
  LET i == FindOne(ps, LAMBDA j : ps[j].transactionId = ev.key)
  IN  IF i = 0 THEN NoPayment("payment_not_found")
      ELSE IF ps[i].status # COMPLETED
      THEN Effect(i, [ps[i] EXCEPT !.status = COMPLETED],
                  PAID, FALSE, "success", TRUE, "processed")
      ELSE Untouched(ps, i)

handlePaymentIntentFailed(ps, ev) ==
  LET i == FindOne(ps, LAMBDA j : ps[j].transactionId = ev.key)
  IN  IF i = 0 THEN NoPayment("payment_not_found")
      ELSE IF ps[i].status # FAILED
      THEN Effect(i, [ps[i] EXCEPT !.status = FAILED,
                                   !.failureReason = "stripe_failed"],
                  "none", FALSE, "failed", TRUE, "processed")
      ELSE Untouched(ps, i)

\* handlePaymentIntentRequiresAction with its guard written like
\* the other handlers' (status differs from the target status)
RequiresActionAnyStatus(ps, ev) ==
  LET i == FindOne(ps, LAMBDA j : ps[j].transactionId = ev.key)
  IN  IF i # 0 /\ ps[i].status # PENDING
      THEN Effect(i, [ps[i] EXCEPT !.status = PENDING,
                                   !.failureReason = "requires_action"],
                  "none", FALSE, "none", FALSE, "processed")
      ELSE IF i # 0 THEN Untouched(ps, i) ELSE NoPayment("processed")

handlePaymentIntentRequiresAction(ps, ev) ==
  LET i == FindOne(ps, LAMBDA j : ps[j].transactionId = ev.key)
  IN  IF i # 0 /\ ps[i].status = PROCESSING
      THEN Effect(i, [ps[i] EXCEPT !.status = PENDING,
                                   !.failureReason = "requires_action"],
                  "none", FALSE, "none", FALSE, "processed")
      ELSE IF i # 0 THEN Untouched(ps, i) ELSE NoPayment("processed")

handlePaymentIntentCanceled(ps, ev) ==
  LET i == FindOne(ps, LAMBDA j : ps[j].transactionId = ev.key)
  IN  IF i # 0 /\ ps[i].status # CANCELLED
      THEN Effect(i, [ps[i] EXCEPT !.status = CANCELLED,
                                   !.failureReason = "canceled"],
                  "none", FALSE, "none", FALSE, "processed")
      ELSE IF i # 0 THEN Untouched(ps, i) ELSE NoPayment("processed")

\* only gatewayResponse.charge_succeeded is added
handleChargeSucceeded(ps, ev) ==
  LET i == FindOne(ps, LAMBDA j : ps[j].transactionId = ev.key)
  IN  IF i # 0 THEN Untouched(ps, i) ELSE NoPayment("processed")

handleChargeFailed(ps, ev) ==
  LET i == FindOne(ps, LAMBDA j : ps[j].transactionId = ev.key)
  IN  IF i # 0 /\ ev.flag /\ ps[i].failureReason = NoReason
      THEN Effect(i, [ps[i] EXCEPT !.failureReason = "charge_failed"],
                  "none", FALSE, "none", FALSE, "processed")
      ELSE IF i # 0 THEN Untouched(ps, i) ELSE NoPayment("processed")

handleChargeDisputeCreated(ps, ev) ==
  LET i == FindOne(ps, LAMBDA j : ps[j].gatewayResponse.charge = ev.key)
  IN  IF i # 0
      THEN Effect(i, [ps[i] EXCEPT !.status = FAILED,
                                   !.failureReason = "dispute"],
                  FAILED, FALSE, "none", FALSE, "processed")
      ELSE NoPayment("processed")

handleChargeDisputeUpdated(ps, ev) ==
  LET i == FindOne(ps, LAMBDA j : ps[j].gatewayResponse.charge = ev.key)
  IN  IF i # 0 /\ ev.flag
      THEN Effect(i, [ps[i] EXCEPT !.status = COMPLETED,
                                   !.failureReason = NoReason],
                  PAID, TRUE, "none", FALSE, "processed")
      ELSE IF i # 0 THEN Untouched(ps, i) ELSE NoPayment("processed")

\* handleRefundCreated that records the status alone
RefundCreatedStatusOnly(ps, ev) ==
  LET i == FindOne(ps, LAMBDA j : ps[j].transactionId = ev.key)
  IN  IF i = 0 THEN NoPayment("payment_not_found")
      ELSE IF ps[i].status # REFUNDED
      THEN Effect(i, [ps[i] EXCEPT !.status = REFUNDED],
                  REFUNDED, FALSE, "refund", FALSE, "processed")
      ELSE Untouched(ps, i)

handleRefundCreated(ps, ev) ==
  LET i == FindOne(ps, LAMBDA j : ps[j].transactionId = ev.key)
  IN  IF i = 0 THEN NoPayment("payment_not_found")
      ELSE IF ps[i].status # REFUNDED
      THEN Effect(i, [ps[i] EXCEPT !.status = REFUNDED,
                                   !.refundId = ev.rid,
                                   !.refundAmount = FromCents(ev.amt)],
                  REFUNDED, FALSE, "refund", FALSE, "processed")
      ELSE Untouched(ps, i)

handleRefundUpdated(ps, ev) ==
  LET i == FindOne(ps, LAMBDA j : /\ ps[j].transactionId = ev.key
                                  /\ ps[j].refundId = ev.rid)
  IN  IF i # 0 /\ ev.flag
      THEN Effect(i, [ps[i] EXCEPT !.status = COMPLETED,
                                   !.refundId = Absent,
                                   !.refundAmount = Absent],
                  PAID, TRUE, "none", FALSE, "processed")
      ELSE IF i # 0 THEN Untouched(ps, i) ELSE NoPayment("processed")

StripeEventTypes ==
  {"payment_intent.succeeded", "payment_intent.payment_failed",
   "payment_intent.requires_action", "payment_intent.canceled",
   "charge.succeeded", "charge.failed", "charge.dispute.created",
   "charge.dispute.updated", "refund.created", "refund.updated",
   "invoice.payment_succeeded", "invoice.payment_failed",
   "customer.created"}

\* StripeWebhookHandler.handleWebhookEvent
StripeHandleWebhookEvent(ps, ev) ==
  CASE ev.type = "payment_intent.succeeded" ->
         handlePaymentIntentSucceeded(ps, ev)
    [] ev.type = "payment_intent.payment_failed" ->
         handlePaymentIntentFailed(ps, ev)
    [] ev.type = "payment_intent.requires_action" ->
         handlePaymentIntentRequiresAction(ps, ev)
    [] ev.type = "payment_intent.canceled" ->
         handlePaymentIntentCanceled(ps, ev)
    [] ev.type = "charge.succeeded" -> handleChargeSucceeded(ps, ev)
    [] ev.type = "charge.failed" -> handleChargeFailed(ps, ev)
    [] ev.type = "charge.dispute.created" ->
         handleChargeDisputeCreated(ps, ev)
    [] ev.type = "charge.dispute.updated" ->
         handleChargeDisputeUpdated(ps, ev)
    [] ev.type = "refund.created" -> handleRefundCreated(ps, ev)
    [] ev.type = "refund.updated" -> handleRefundUpdated(ps, ev)
    [] ev.type \in {"invoice.payment_succeeded", "invoice.payment_failed"} ->
         NoPayment("logged")
    [] OTHER -> NoPayment("ignored")

(***************************************************************************)
(* PayPalWebhookHandler                                                    *)
(***************************************************************************)
handleOrderApproved(ps, ev) ==
  LET i == FindOne(ps, LAMBDA j : ps[j].transactionId = ev.key)
  IN  IF i # 0 /\ ps[i].status = PROCESSING
      THEN Effect(i, [ps[i] EXCEPT !.status = PENDING],
                  "none", FALSE, "none", FALSE, "processed")
      ELSE IF i # 0 THEN Untouched(ps, i) ELSE NoPayment("processed")

\* paymentId: the position of the document (custom_id names a paymentId)
handlePaymentCaptureCompleted(ps, ev) ==
  LET i == FindOne(ps, LAMBDA j : \/ ps[j].transactionId = ev.key
                                  \/ j = ev.custom
                                  \/ ps[j].gatewayResponse.id = ev.cap)
  IN  IF i = 0 THEN NoPayment("payment_not_found")
      ELSE IF ps[i].status # COMPLETED
      THEN Effect(i, [ps[i] EXCEPT !.status = COMPLETED],
                  PAID, FALSE, "success", TRUE, "processed")
      ELSE Untouched(ps, i)

handlePaymentCaptureDenied(ps, ev) ==
  LET i == FindOne(ps, LAMBDA j : \/ ps[j].transactionId = ev.key
                                  \/ ps[j].gatewayResponse.id = ev.cap)
  IN  IF i = 0 THEN NoPayment("payment_not_found")
      ELSE IF ps[i].status # FAILED
      THEN Effect(i, [ps[i] EXCEPT !.status = FAILED,
                                   !.failureReason = "denied"],
                  "none", FALSE, "failed", TRUE, "processed")
      ELSE Untouched(ps, i)

handlePaymentCapturePending(ps, ev) ==
  LET i == FindOne(ps, LAMBDA j : \/ ps[j].transactionId = ev.key
                                  \/ ps[j].gatewayResponse.id = ev.cap)
  IN  IF i # 0 /\ ps[i].status = PROCESSING
      THEN Effect(i, [ps[i] EXCEPT !.status = PENDING,
                                   !.failureReason = "pending_review"],
                  "none", FALSE, "none", FALSE, "processed")
      ELSE IF i # 0 THEN Untouched(ps, i) ELSE NoPayment("processed")

handlePaymentCaptureRefunded(ps, ev) ==
  LET i == FindOne(ps, LAMBDA j : ps[j].gatewayResponse.capture = ev.cap)
  IN  IF i = 0 THEN NoPayment("payment_not_found")
      ELSE IF ps[i].status # REFUNDED
      THEN Effect(i, [ps[i] EXCEPT !.status = REFUNDED,
                                   !.refundId = ev.rid,
                                   !.refundAmount = FromCents(ev.amt)],
                  REFUNDED, FALSE, "refund", FALSE, "processed")
      ELSE Untouched(ps, i)

handlePaymentCaptureReversed(ps, ev) ==
  LET i == FindOne(ps, LAMBDA j : ps[j].gatewayResponse.capture = ev.cap)
  IN  IF i # 0
      THEN Effect(i, [ps[i] EXCEPT !.status = FAILED,
                                   !.failureReason = "chargeback"],
                  FAILED, FALSE, "none", FALSE, "processed")
      ELSE NoPayment("processed")

handleOrderVoided(ps, ev) ==
  LET i == FindOne(ps, LAMBDA j : ps[j].transactionId = ev.key)
  IN  IF i # 0 /\ ps[i].status # CANCELLED
      THEN Effect(i, [ps[i] EXCEPT !.status = CANCELLED,
                                   !.failureReason = "voided"],
                  "none", FALSE, "none", FALSE, "processed")
      ELSE IF i # 0 THEN Untouched(ps, i) ELSE NoPayment("processed")

PayPalEventTypes ==
  {"CHECKOUT.ORDER.APPROVED", "PAYMENT.CAPTURE.COMPLETED",
   "PAYMENT.CAPTURE.DENIED", "PAYMENT.CAPTURE.PENDING",
   "PAYMENT.CAPTURE.REFUNDED", "PAYMENT.CAPTURE.REVERSED",
   "CHECKOUT.ORDER.COMPLETED", "CHECKOUT.ORDER.VOIDED",
   "BILLING.PLAN.CREATED"}

\* PayPalWebhookHandler.handleWebhookEvent
PayPalHandleWebhookEvent(ps, ev) ==
  CASE ev.type = "CHECKOUT.ORDER.APPROVED" -> handleOrderApproved(ps, ev)
    [] ev.type = "PAYMENT.CAPTURE.COMPLETED" ->
         handlePaymentCaptureCompleted(ps, ev)
    [] ev.type = "PAYMENT.CAPTURE.DENIED" ->
         handlePaymentCaptureDenied(ps, ev)
    [] ev.type = "PAYMENT.CAPTURE.PENDING" ->
         handlePaymentCapturePending(ps, ev)
    [] ev.type = "PAYMENT.CAPTURE.REFUNDED" ->
         handlePaymentCaptureRefunded(ps, ev)
    [] ev.type = "PAYMENT.CAPTURE.REVERSED" ->
         handlePaymentCaptureReversed(ps, ev)
    [] ev.type = "CHECKOUT.ORDER.COMPLETED" -> NoPayment("logged")
    [] ev.type = "CHECKOUT.ORDER.VOIDED" -> handleOrderVoided(ps, ev)
    [] OTHER -> NoPayment("ignored")

(***************************************************************************)
(* State                                                                   *)
(*   payments     the payments collection, in insertion order; the         *)
(*                paymentId of a document is its position                  *)
(*   orders       paymentStatus of every order                             *)
(*   nextTxn      the number of the next object a gateway creates          *)
(*   everSettled  the payments that have been COMPLETED or REFUNDED        *)
(*   last         the request served last and what it did                  *)
(*   procs        the requests in flight (SpecConc)                        *)
(*   served       the number of requests received so far                   *)
(***************************************************************************)
Settled(ps) == {i \in 1..Len(ps) : ps[i].status \in {COMPLETED, REFUNDED}}

\* (dup: the request is a webhook delivering the event of the request served
\* just before it once more)
Served(op, dup, ev, pid, error, gateway, orderUpdated, notified, emitted) ==
  [op |-> op, dup |-> dup, ev |-> ev, pid |-> pid, error |-> error,
   gateway |-> gateway, orderUpdated |-> orderUpdated,
   notified |-> notified, emitted |-> emitted]

\* What the endpoint answered.  http: the status of the answer of a webhook
\* endpoint; body: the status field of that answer; verified: the webhook
\* is authentic; handled: the webhook handler was invoked; notifyOk: the
\* notification collaborator did not throw; amount: the amount a refund
\* request asks for (Absent: none given); asked: the order a processPayment
\* request names (Absent: one that does not exist) and whether it is the
\* caller's.
Asked(orderId, owns) == [orderId |-> orderId, owns |-> owns]

Answer(http, body, verified, handled, notifyOk, amount) ==
  [http |-> http, body |-> body, verified |-> verified, handled |-> handled,
   notifyOk |-> notifyOk, amount |-> amount, asked |-> Asked(Absent, TRUE)]

\* the answer of a call that is no webhook
Returned(notifyOk, amount) ==
  Answer("none", "none", TRUE, FALSE, notifyOk, amount)

\* A request in flight, between two of its awaits.  pc: the write it makes
\* next ("insert": the first save of a new payment, "save": the save of a
\* loaded payment, "order": findByIdAndUpdate of the order); loaded and snap:
\* the payment it has read, and that document as read; doc: the document it
\* saves; order: the paymentStatus it writes to the order ("none": none).
Proc(pc, op, ev, loaded, snap, doc, order, orderFirst) ==
  [pc |-> pc, op |-> op, ev |-> ev, loaded |-> loaded, snap |-> snap,
   doc |-> doc, order |-> order, orderFirst |-> orderFirst]

Idle == Proc("idle", "none", NoEvent, 0, NoDoc, NoDoc, "none", FALSE)

Init ==
  /\ payments = <<>>
  /\ orders = [o \in Orders |-> [paymentStatus |-> PENDING]]
  /\ nextTxn = 1
  /\ everSettled = {}
  /\ last = Served("none", FALSE, NoEvent, 0, "none", "none", FALSE, "none",
                   FALSE) @@ Returned(TRUE, Absent)
  /\ procs = [s \in 1..MaxProcs |-> Idle]
  /\ served = 0
  /\ hook = NoCall
  /\ shop = NoShop
  /\ lru = NoCache

(***************************************************************************)
(* Spec: every request is served in one step                               *)
(***************************************************************************)
\* the requests processPayment can be called with: the order asked for (0:
\* one that does not exist), whether it is the caller's, the method, the
\* details, the gateway's answer, and whether the notification is delivered
\* (FALSE: sendPaymentSuccess / sendPaymentFailed throws)
DetailsOf(method) ==
  IF method = PAYPAL THEN PaymentDetails ELSE {[paypalOrderId |-> Absent]}

ProcessRequests ==
  {r \in [orderId : 0..NumOrders, owns : BOOLEAN, method : PaymentMethod,
          details : PaymentDetails,
          resp : [ok : BOOLEAN,
                  status : {"succeeded", "requires_action", "COMPLETED",
                            "PENDING", "CREATED", "error", "none"},
                  charges : BOOLEAN],
          notifyOk : BOOLEAN] :
     /\ r.details \in DetailsOf(r.method)
     /\ r.resp \in GatewayResponses(r.method, r.details)}

\* lines 269-272: the catch block of processPayment stores the payment as
\* FAILED with the message of the error, whatever its status was
FailedAfterError(doc, reason) ==
  [doc EXCEPT !.status = FAILED, !.failureReason = reason]

\* PaymentsService.processPayment (userOk FALSE: userModel.findById, line
\* 219, throws)
ProcessPayment ==
  \E r \in ProcessRequests :
    LET check == ProcessPaymentCheck(orders, r.orderId, r.owns)
        doc == ProcessedPayment(r.orderId, r.method, r.details, r.resp,
                                nextTxn)
        supported == r.method \in {STRIPE, PAYPAL}
        success == doc.status = COMPLETED
    IN  IF check # "ok"
        THEN /\ last' = Served("processPayment", FALSE, NoEvent, 0,
                               check, "none", FALSE, "none", FALSE)
                             @@ [Returned(TRUE, Absent) EXCEPT
                                   !.asked = Asked(r.orderId, r.owns)]
             /\ UNCHANGED <<payments, orders, nextTxn, everSettled, procs>>
        ELSE \E userOk \in IF supported THEN BOOLEAN ELSE {TRUE} :
             LET notified == userOk /\ r.notifyOk
             IN
             /\ Len(payments) < MaxPayments
             /\ AssignsId(r.method, r.details, r.resp) => nextTxn <= MaxTxn
             /\ payments' = Append(payments,
                                   IF userOk THEN doc
                                   ELSE FailedAfterError(doc,
                                                         "user_lookup_error"))
             /\ nextTxn' = IF AssignsId(r.method, r.details, r.resp)
                           THEN nextTxn + 1 ELSE nextTxn
             /\ orders' = IF success /\ notified
                          THEN [orders EXCEPT
                                  ![r.orderId].paymentStatus = PAID]
                          ELSE orders
             /\ everSettled' = everSettled \cup Settled(Append(payments, doc))
             /\ last' = Served("processPayment", FALSE, NoEvent,
                               Len(payments) + 1,
                               IF ~supported THEN "BadRequest"
                               ELSE IF ~userOk THEN "UserLookupError"
                               ELSE "none",
                               IF ~supported THEN "none"
                               ELSE IF r.resp.ok THEN r.resp.status
                               ELSE "failed",
                               success /\ notified,
                               IF ~supported \/ ~userOk THEN "none"
                               ELSE IF success THEN "success" ELSE "failed",
                               supported /\ notified)
                        @@ [Returned(~supported \/ ~userOk \/ r.notifyOk,
                                     Absent)
                              EXCEPT !.asked = Asked(r.orderId, r.owns)]
             /\ UNCHANGED procs

\* PaymentsService.refundPayment
RefundPayment ==
  \E paymentId \in 1..MaxPayments, amount \in RefundAmounts :
    IF paymentId > Len(payments)
    THEN /\ last' = Served("refundPayment", FALSE, NoEvent, 0,
                           "NotFound", "none", FALSE, "none", FALSE)
                    @@ Returned(TRUE, amount)
         /\ UNCHANGED <<payments, orders, nextTxn, everSettled, procs>>
    ELSE LET payment == payments[paymentId] IN
      IF ~RefundGuard(payment) \/ ~RefundReachesGateway(payment)
      THEN /\ last' = Served("refundPayment", FALSE, NoEvent,
                             paymentId,
                             IF ~RefundGuard(payment) THEN "BadRequest"
                             ELSE "RefundFailed",
                             "none", FALSE, "none", FALSE)
                      @@ Returned(TRUE, amount)
           /\ UNCHANGED <<payments, orders, nextTxn, everSettled, procs>>
      ELSE \E resp \in RefundResponses(payment) :
        LET doc == RefundedPayment(payment, amount, resp)
            success == doc.status = REFUNDED
        IN  /\ payments' = [payments EXCEPT ![paymentId] = doc]
            /\ orders' = IF success
                         THEN [orders EXCEPT
                                 ![payment.orderId].paymentStatus = REFUNDED]
                         ELSE orders
            /\ everSettled' = everSettled \cup Settled(payments')
            /\ last' = Served("refundPayment", FALSE, NoEvent,
                              paymentId, "none",
                              IF resp.ok THEN resp.status ELSE "failed",
                              success, "none", FALSE)
                       @@ Returned(TRUE, amount)
            /\ UNCHANGED <<nextTxn, procs>>

\* HttpStatus.OK
HTTP_OK == "OK"

\* StripeService.verifyWebhook without the comparison of the signatures
StripeVerifyWebhookUnchecked(valid) == "none"

\* StripeService.verifyWebhook: the error it throws ("none": it returns the
\* event)
StripeVerifyWebhook(valid) == IF valid THEN "none" ELSE "BadRequest"

\* PayPalService.verifyWebhook: isValid
PayPalVerifyWebhook(valid) == valid

\* the error that leaves a handler's sendPayment...Notification helper when
\* the notification collaborator throws: none, it is caught and logged
sendPaymentNotificationUncaught(notifyOk) ==
  IF notifyOk THEN "none" ELSE "HandlerError"

sendPaymentNotification(notifyOk) == "none"

\* a webhook endpoint whose catch block throws the error on
WebhookAnswerRethrown(error) ==
  [http |-> IF error = "none" THEN HTTP_OK ELSE "INTERNAL_SERVER_ERROR",
   body |-> IF error = "none" THEN "success" ELSE "error"]

\* the answer of a webhook endpoint whose try block ended with this error:
\* both endpoints are @HttpCode(OK) and return from their catch block
WebhookAnswer(error) ==
  [http |-> HTTP_OK, body |-> IF error = "none" THEN "success" ELSE "error"]

\* a webhook that fails verification: Stripe's verifyWebhook throws into the
\* controller's catch, PayPal's controller returns the error answer
Reject(op, error) ==
  /\ last' = Served(op, FALSE, NoEvent, 0, error, "none", FALSE, "none",
                    FALSE)
             @@ Answer(WebhookAnswer(error).http, "error", FALSE, FALSE,
                       TRUE, Absent)
  /\ UNCHANGED <<payments, orders, nextTxn, everSettled, procs>>

\* a webhook past verification whose handler throws at its lookup of the
\* payment
Thrown(op, ev, valid) ==
  /\ last' = Served(op, FALSE, ev, 0, "HandlerError", "none", FALSE, "none",
                    FALSE)
             @@ Answer(WebhookAnswer("HandlerError").http,
                       WebhookAnswer("HandlerError").body, valid, TRUE, TRUE,
                       Absent)
  /\ UNCHANGED <<payments, orders, nextTxn, everSettled, procs>>

\* a webhook past verification served by a handler: the payment is saved,
\* the order updated, the notification sent
Deliver(op, ev, eff, valid) ==
  \E notifyOk \in IF eff.notify = "none" THEN {TRUE} ELSE BOOLEAN :
    LET error == sendPaymentNotification(notifyOk)
    IN  /\ payments' = IF eff.found # 0
                       THEN [payments EXCEPT ![eff.found] = eff.doc]
                       ELSE payments
        /\ orders' = IF eff.order # "none"
                     THEN [orders EXCEPT
                             ![eff.doc.orderId].paymentStatus = eff.order]
                     ELSE orders
        /\ everSettled' = everSettled \cup Settled(payments')
        /\ last' = Served(op, ev = last.ev /\ last.error = "none", ev,
                          eff.found, error, "none", eff.order # "none",
                          eff.notify, eff.emit /\ error = "none")
                   @@ Answer(WebhookAnswer(error).http,
                             WebhookAnswer(error).body, valid, TRUE, notifyOk,
                             Absent)
        /\ UNCHANGED <<nextTxn, procs>>

\* POST /payments/webhook/stripe
StripeWebhook ==
  \E valid \in BOOLEAN :
    IF StripeVerifyWebhook(valid) # "none"
    THEN Reject("stripeWebhook", StripeVerifyWebhook(valid))
    ELSE \E type \in StripeEventTypes : \E ev \in StripeEventsOf(type) :
           \/ Deliver("stripeWebhook", ev,
                      StripeHandleWebhookEvent(payments, ev), valid)
           \/ Thrown("stripeWebhook", ev, valid)

\* POST /payments/webhook/paypal
PayPalWebhook ==
  \E valid \in BOOLEAN :
    IF ~PayPalVerifyWebhook(valid)
    THEN Reject("paypalWebhook", "none")
    ELSE \E type \in PayPalEventTypes : \E ev \in PayPalEventsOf(type) :
           \/ Deliver("paypalWebhook", ev,
                      PayPalHandleWebhookEvent(payments, ev), valid)
           \/ Thrown("paypalWebhook", ev, valid)

\* one more request is received
Receive ==
  /\ served < MaxRequests
  /\ served' = served + 1

Next ==
  \/ Receive /\ ProcessPayment /\ UNCHANGED <<hook, shop, lru>>
  \/ Receive /\ RefundPayment /\ UNCHANGED <<hook, shop, lru>>
  \/ Receive /\ StripeWebhook /\ UNCHANGED <<hook, shop, lru>>
  \/ Receive /\ PayPalWebhook /\ UNCHANGED <<hook, shop, lru>>

Spec == Init /\ [][Next]_vars

(***************************************************************************)
(* SpecConc: a request runs up to its next await in one step, and the      *)
(* requests in flight take their steps in any order                        *)
(***************************************************************************)
\* the slot a newly received request runs in
FreeSlot(s) ==
  /\ procs[s].pc = "idle"
  /\ \A t \in 1..(s - 1) : procs[t].pc # "idle"

Inserting == {s \in 1..MaxProcs : procs[s].pc = "insert"}

\* processPayment up to payment.save(): the order is checked, the gateway
\* has answered, the document is ready to be saved
StartProcessPayment ==
  \E s \in 1..MaxProcs, r \in ProcessRequests :
    LET check == ProcessPaymentCheck(orders, r.orderId, r.owns)
        doc == ProcessedPayment(r.orderId, r.method, r.details, r.resp,
                                nextTxn)
    IN  /\ FreeSlot(s)
        /\ IF check # "ok"
           THEN UNCHANGED <<nextTxn, procs>>
           ELSE /\ Len(payments) + Cardinality(Inserting) < MaxPayments
                /\ AssignsId(r.method, r.details, r.resp) => nextTxn <= MaxTxn
                /\ nextTxn' = IF AssignsId(r.method, r.details, r.resp)
                              THEN nextTxn + 1 ELSE nextTxn
                /\ procs' = [procs EXCEPT ![s] =
                     Proc("insert", "processPayment", NoEvent, 0, NoDoc, doc,
                          IF doc.status = COMPLETED /\ r.notifyOk
                          THEN PAID ELSE "none",
                          FALSE)]
        /\ UNCHANGED <<payments, orders, everSettled, last>>

\* refundPayment up to payment.save(): the payment is read and checked, the
\* gateway has answered
StartRefundPayment ==
  \E s \in 1..MaxProcs, paymentId \in 1..MaxPayments,
     amount \in RefundAmounts :
    /\ FreeSlot(s)
    /\ IF paymentId > Len(payments)
       THEN UNCHANGED procs
       ELSE LET payment == payments[paymentId] IN
         IF ~RefundGuard(payment) \/ ~RefundReachesGateway(payment)
         THEN UNCHANGED procs
         ELSE \E resp \in RefundResponses(payment) :
           LET doc == RefundedPayment(payment, amount, resp)
           IN  IF doc.status # REFUNDED
               THEN UNCHANGED procs
               ELSE procs' = [procs EXCEPT ![s] =
                      Proc("save", "refundPayment", NoEvent, paymentId,
                           payment, doc, REFUNDED, FALSE)]
    /\ UNCHANGED <<payments, orders, nextTxn, everSettled, last>>

\* a webhook handler up to its first write
StartWebhook(s, op, ev, eff) ==
  /\ FreeSlot(s)
  /\ IF eff.found = 0 \/ (eff.doc = payments[eff.found] /\ eff.order = "none")
     THEN UNCHANGED procs
     ELSE procs' = [procs EXCEPT ![s] =
            Proc(IF eff.orderFirst THEN "order" ELSE "save", op, ev,
                 eff.found, payments[eff.found], eff.doc, eff.order,
                 eff.orderFirst)]
  /\ UNCHANGED <<payments, orders, nextTxn, everSettled, last>>

StartStripeWebhook ==
  \E s \in 1..MaxProcs, type \in StripeEventTypes :
    \E ev \in StripeEventsOf(type) :
      StartWebhook(s, "stripeWebhook", ev,
                   StripeHandleWebhookEvent(payments, ev))

StartPayPalWebhook ==
  \E s \in 1..MaxProcs, type \in PayPalEventTypes :
    \E ev \in PayPalEventsOf(type) :
      StartWebhook(s, "paypalWebhook", ev,
                   PayPalHandleWebhookEvent(payments, ev))

\* the request leaves its slot, or goes on to the write that remains
After(s, pc) ==
  [procs EXCEPT ![s] = IF pc = "idle" THEN Idle ELSE [@ EXCEPT !.pc = pc]]

\* payment.save() of a new document
InsertPayment ==
  \E s \in 1..MaxProcs :
    /\ procs[s].pc = "insert"
    /\ payments' = Append(payments, procs[s].doc)
    /\ everSettled' = everSettled \cup Settled(payments')
    /\ procs' = After(s, IF procs[s].order # "none" THEN "order" ELSE "idle")
    /\ UNCHANGED <<orders, nextTxn, last, served>>

\* payment.save() of a loaded document
SavePayment ==
  \E s \in 1..MaxProcs :
    /\ procs[s].pc = "save"
    /\ payments' = [payments EXCEPT ![procs[s].loaded] =
                      Save(@, procs[s].snap, procs[s].doc)]
    /\ everSettled' = everSettled \cup Settled(payments')
    /\ procs' = After(s, IF procs[s].order # "none" /\ ~procs[s].orderFirst
                         THEN "order" ELSE "idle")
    /\ UNCHANGED <<orders, nextTxn, last, served>>

\* orderModel.findByIdAndUpdate
UpdateOrder ==
  \E s \in 1..MaxProcs :
    /\ procs[s].pc = "order"
    /\ orders' = [orders EXCEPT
                    ![procs[s].doc.orderId].paymentStatus = procs[s].order]
    /\ procs' = After(s, IF procs[s].orderFirst THEN "save" ELSE "idle")
    /\ UNCHANGED <<payments, nextTxn, everSettled, last, served>>

NextConc ==
  \/ Receive /\ StartProcessPayment /\ UNCHANGED <<hook, shop, lru>>
  \/ Receive /\ StartRefundPayment /\ UNCHANGED <<hook, shop, lru>>
  \/ Receive /\ StartStripeWebhook /\ UNCHANGED <<hook, shop, lru>>
  \/ Receive /\ StartPayPalWebhook /\ UNCHANGED <<hook, shop, lru>>
  \/ InsertPayment /\ UNCHANGED <<hook, shop, lru>>
  \/ SavePayment /\ UNCHANGED <<hook, shop, lru>>
  \/ UpdateOrder /\ UNCHANGED <<hook, shop, lru>>

SpecConc == Init /\ [][NextConc]_vars

(***************************************************************************)
(* Properties                                                              *)
(***************************************************************************)
\* the paymentStatus an order has after its payment has taken a status
OrderStatusOf(status, old) ==
  CASE status = COMPLETED -> PAID
    [] status = FAILED -> FAILED
    [] status = REFUNDED -> REFUNDED
    [] OTHER -> old

\* the request served by this step has given payment i a status: it has
\* stored it, or changed the status it had
StatusWritten(i) ==
  \/ i > Len(payments)
  \/ payments'[i].status # payments[i].status

\* C1: whenever a request has changed (or first stored) the status of a
\* payment, the paymentStatus of its order is, right after the request, the
\* image of the new status: COMPLETED gives PAID, FAILED gives FAILED,
\* REFUNDED gives REFUNDED, any other status leaves it as it was.
C1_OrderFollowsPayment ==
  [][\A i \in 1..Len(payments') :
       StatusWritten(i) =>
         orders'[payments'[i].orderId].paymentStatus =
           OrderStatusOf(payments'[i].status,
                         orders[payments'[i].orderId].paymentStatus)]_vars

\* C2: a webhook event delivered a second time right after its first
\* delivery changes no payment and no order, updates no order and sends no
\* notification.
C2_SecondDeliveryNoOp ==
  [][last'.dup /\ served' # served =>
       /\ payments' = payments
       /\ orders' = orders
       /\ ~last'.orderUpdated
       /\ last'.notified = "none"]_vars

DisputeCreatedTypes == {"charge.dispute.created", "PAYMENT.CAPTURE.REVERSED"}

\* C3: the status of a COMPLETED or REFUNDED payment changes only from
\* COMPLETED to REFUNDED, or from COMPLETED to FAILED by a dispute-created
\* (chargeback) event.
C3_NoRegression ==
  [][\A i \in 1..Len(payments) :
       /\ payments[i].status \in {COMPLETED, REFUNDED}
       /\ payments'[i].status # payments[i].status
       => \/ /\ payments[i].status = COMPLETED
             /\ payments'[i].status = REFUNDED
          \/ /\ payments[i].status = COMPLETED
             /\ payments'[i].status = FAILED
             /\ last'.ev.type \in DisputeCreatedTypes]_vars

\* C4: a payment that has once been COMPLETED or REFUNDED is never PENDING
\* or PROCESSING afterwards.
C4_NeverBackToPending ==
  \A i \in everSettled : payments[i].status \notin {PENDING, PROCESSING}

\* a requires-action, order-approved or capture-pending event has been
\* delivered for a payment that had been COMPLETED or REFUNDED
C4_Witness ==
  /\ last.ev.type \in {"payment_intent.requires_action",
                       "CHECKOUT.ORDER.APPROVED", "PAYMENT.CAPTURE.PENDING"}
  /\ last.pid \in everSettled

\* C5: at most one payment of an order is COMPLETED.
C5_OneCompletedPerOrder ==
  \A o \in Orders :
    Cardinality({i \in 1..Len(payments) :
                   payments[i].orderId = o /\ payments[i].status = COMPLETED})
      <= 1

\* C6: a payment becomes REFUNDED only from COMPLETED.
C6_RefundedOnlyFromCompleted ==
  [][\A i \in 1..Len(payments') :
       payments'[i].status = REFUNDED /\ StatusWritten(i) =>
         i <= Len(payments) /\ payments[i].status = COMPLETED]_vars

\* C7: refundPayment on a stored payment that is not COMPLETED fails with
\* BadRequest, makes no gateway call and changes no payment and no order.
C7_RefundGuard ==
  [][/\ served' # served
     /\ last'.op = "refundPayment"
     /\ last'.pid # 0
     /\ payments[last'.pid].status # COMPLETED
     => /\ last'.error = "BadRequest"
        /\ last'.gateway = "none"
        /\ payments' = payments
        /\ orders' = orders]_vars

\* refundPayment has been refused for a payment that is not COMPLETED
C7_Witness ==
  /\ last.op = "refundPayment"
  /\ last.pid # 0
  /\ last.error = "BadRequest"
  /\ payments[last.pid].status # COMPLETED

\* C10: after processPayment whose gateway call failed or timed out, the
\* payment it stored is PROCESSING.
C10_GatewayFailureLeavesProcessing ==
  last.op = "processPayment" /\ last.gateway = "failed" =>
    payments[last.pid].status = PROCESSING

\* the request in slot s saves a payment whose stored status is no longer
\* the status the request read and checked
StaleSave(s) ==
  /\ procs[s].pc = "save"
  /\ procs'[s].pc # "save"
  /\ payments[procs[s].loaded].status # procs[s].snap.status

\* C8: a webhook handler whose status check has been overtaken by another
\* writer is a no-op: it changes no payment and goes on to no order update.
C8_AtomicCheckAndUpdate ==
  [][\A s \in 1..MaxProcs :
       procs[s].op \in {"stripeWebhook", "paypalWebhook"} /\ StaleSave(s) =>
         payments' = payments /\ procs'[s].pc = "idle"]_vars

\* C9: refundPayment does not replace a status written to the payment since
\* refundPayment read it.
C9_SyncKeepsNewerStatus ==
  [][\A s \in 1..MaxProcs :
       procs[s].op = "refundPayment" /\ StaleSave(s) =>
         payments'[procs[s].loaded].status =
           payments[procs[s].loaded].status]_vars

Webhooks == {"stripeWebhook", "paypalWebhook"}

\* the answers with which a gateway reports the payment or refund as made
GatewaySuccess == {"succeeded", "COMPLETED"}

\* C11: after processPayment whose Stripe call answered requires_action, the
\* payment it stored is PENDING or PROCESSING and no payment-failed
\* notification was sent.
C11_RequiresActionIsPending ==
  last.op = "processPayment" /\ last.gateway = "requires_action" =>
    /\ payments[last.pid].status \in {PENDING, PROCESSING}
    /\ last.notified # "failed"

\* C12: a webhook that fails its authenticity check does not reach the
\* handler, looks up no payment, and changes no payment and no order; no
\* notification is sent and no event emitted.
C12_UnverifiedWebhookRejected ==
  [][last'.op \in Webhooks /\ served' # served /\ ~last'.verified =>
       /\ ~last'.handled
       /\ last'.pid = 0
       /\ last'.body = "error"
       /\ payments' = payments
       /\ orders' = orders
       /\ last'.notified = "none"
       /\ ~last'.emitted]_vars

C12_Witness ==
  /\ last.op \in Webhooks
  /\ ~last.verified
  /\ ~last.handled
  /\ \E i \in 1..Len(payments) : payments[i].status = COMPLETED

\* C13: the Stripe webhook endpoint answers HTTP 200 to every webhook that
\* passes verification, whatever the handler did with it; so an answer other
\* than 200 is given only to a webhook that failed verification.
C13_VerifiedStripeWebhookAnswersOk ==
  last.op = "stripeWebhook" /\ last.verified => last.http = HTTP_OK

C13_Witness ==
  /\ last.op = "stripeWebhook"
  /\ last.verified
  /\ last.error = "HandlerError"
  /\ last.body = "error"
  /\ last.http = HTTP_OK

\* C14: a notification that throws does not fail the operation: the webhook
\* is answered as processed with the payment and the order as the handler
\* wrote them, and processPayment returns its payment with no error.
C14_NotificationFailureTolerated ==
  /\ last.op \in Webhooks /\ last.notified # "none" /\ ~last.notifyOk =>
       /\ last.error = "none"
       /\ last.body = "success"
       /\ last.notified = "success" =>
            /\ payments[last.pid].status = COMPLETED
            /\ orders[payments[last.pid].orderId].paymentStatus = PAID
       /\ last.notified = "failed" => payments[last.pid].status = FAILED
       /\ last.notified = "refund" =>
            /\ payments[last.pid].status = REFUNDED
            /\ orders[payments[last.pid].orderId].paymentStatus = REFUNDED
  /\ last.op = "processPayment" /\ last.pid # 0 /\ ~last.notifyOk =>
       last.error = "none"

C14_Witness ==
  /\ last.op \in Webhooks
  /\ last.notified = "success"
  /\ ~last.notifyOk
  /\ last.orderUpdated

\* C15: processPayment for an order that does not exist, is not the
\* caller's, or is already PAID fails with an error before any gateway
\* call, stores no payment and changes no order.
C15_ProcessPaymentRejected ==
  [][/\ last'.op = "processPayment"
     /\ served' # served
     /\ \/ last'.asked.orderId \notin Orders
        \/ ~last'.asked.owns
        \/ orders[last'.asked.orderId].paymentStatus = PAID
     => /\ last'.error \in {"NotFound", "BadRequest"}
        /\ last'.gateway = "none"
        /\ last'.pid = 0
        /\ payments' = payments
        /\ orders' = orders
        /\ nextTxn' = nextTxn]_vars

C15_Witness ==
  /\ last.op = "processPayment"
  /\ last.pid = 0
  /\ last.error = "BadRequest"
  /\ last.asked.orderId \in Orders
  /\ last.asked.owns
  /\ orders[last.asked.orderId].paymentStatus = PAID

\* C16: the create-order phase of the PayPal flow leaves its payment PENDING
\* or PROCESSING, and the capture of that PayPal order completes that same
\* payment (no further payment is stored) and sets the order PAID.
C16_PayPalTwoPhase ==
  [][last'.op = "processPayment" /\ served' # served /\ last'.pid # 0 =>
       /\ last'.gateway = "CREATED" =>
            payments'[last'.pid].status \in {PENDING, PROCESSING}
       /\ /\ last'.gateway = "COMPLETED"
          /\ payments'[last'.pid].method = PAYPAL
          /\ \E i \in 1..Len(payments) :
               payments[i].transactionId = payments'[last'.pid].transactionId
          => /\ Len(payments') = Len(payments)
             /\ orders'[payments'[last'.pid].orderId].paymentStatus = PAID
     ]_vars

\* C17: refundPayment of a COMPLETED payment with amount a, the gateway
\* refund succeeding, leaves the payment REFUNDED with refundAmount a (the
\* payment's amount when no a is given) and its refundId set, and the order
\* REFUNDED.
C17_RefundRecorded ==
  [][/\ last'.op = "refundPayment"
     /\ served' # served
     /\ last'.pid # 0
     /\ payments[last'.pid].status = COMPLETED
     /\ last'.gateway \in GatewaySuccess
     => /\ last'.error = "none"
        /\ payments'[last'.pid].status = REFUNDED
        /\ payments'[last'.pid].refundAmount =
             IF last'.amount # Absent THEN last'.amount
             ELSE payments[last'.pid].amount
        /\ payments'[last'.pid].refundId # Absent
        /\ orders'[payments[last'.pid].orderId].paymentStatus = REFUNDED
     ]_vars

C17_Witness ==
  /\ last.op = "refundPayment"
  /\ last.gateway \in GatewaySuccess
  /\ last.amount # Absent
  /\ last.amount < payments[last.pid].amount
  /\ payments[last.pid].status = REFUNDED
  /\ payments[last.pid].refundAmount = last.amount

\* C18: payment_intent.succeeded for the intent of the payment that a Stripe
\* processPayment has just returned COMPLETED changes no payment and no
\* order, and sends no notification and emits no event.
C18_LateSucceededIsNoOp ==
  [][/\ last.op = "processPayment"
     /\ last.gateway = "succeeded"
     /\ last.error = "none"
     /\ last'.op = "stripeWebhook"
     /\ served' # served
     /\ last'.handled
     /\ last'.ev.type = "payment_intent.succeeded"
     /\ last'.ev.key = payments[last.pid].transactionId
     => /\ payments' = payments
        /\ orders' = orders
        /\ ~last'.orderUpdated
        /\ last'.notified = "none"
        /\ ~last'.emitted]_vars

C18_Witness ==
  /\ served = 2
  /\ last.op = "stripeWebhook"
  /\ last.error = "none"
  /\ last.ev.type = "payment_intent.succeeded"
  /\ last.pid # 0
  /\ payments[last.pid].method = STRIPE
  /\ payments[last.pid].status = COMPLETED
  /\ last.ev.key = payments[last.pid].transactionId
  /\ last.notified = "none"

\* C19: the refundAmount of a payment is never more than its amount.
C19_RefundAtMostAmount ==
  \A i \in 1..Len(payments) :
    payments[i].refundAmount # Absent =>
      payments[i].refundAmount <= payments[i].amount

\* C20: after processPayment whose gateway call reported success, the order
\* is PAID, whether or not the success notification could be sent.
C20_SuccessMarksOrderPaid ==
  last.op = "processPayment" /\ last.pid # 0
  /\ last.gateway \in GatewaySuccess =>
    orders[payments[last.pid].orderId].paymentStatus = PAID

\* C21: processPayment never stores as FAILED a payment for which the
\* gateway reported success, whatever fails after the gateway call.
C21_SuccessNeverStoredFailed ==
  last.op = "processPayment" /\ last.pid # 0
  /\ last.gateway \in GatewaySuccess =>
    payments[last.pid].status # FAILED

SuccessTypes == {"payment_intent.succeeded", "PAYMENT.CAPTURE.COMPLETED"}

\* C22: a success webhook for a payment that is FAILED, CANCELLED or
\* REFUNDED changes no payment and no order.
C22_SuccessOnlyFromPending ==
  [][/\ last'.op \in Webhooks
     /\ served' # served
     /\ last'.ev.type \in SuccessTypes
     /\ last'.pid # 0
     /\ payments[last'.pid].status \in {FAILED, CANCELLED, REFUNDED}
     => payments' = payments /\ orders' = orders]_vars

\* C23: a dispute-created or capture-reversed webhook for a payment that is
\* not COMPLETED changes no payment and no order.
C23_DisputeOnlyFromCompleted ==
  [][/\ last'.op \in Webhooks
     /\ served' # served
     /\ last'.ev.type \in DisputeCreatedTypes
     /\ last'.pid # 0
     /\ payments[last'.pid].status # COMPLETED
     => payments' = payments /\ orders' = orders]_vars

\* C24: while a processPayment call is between its gateway call and its
\* save, a PROCESSING payment of its order is stored.
C24_ProcessingStoredBeforeGateway ==
  \A s \in 1..MaxProcs :
    procs[s].op = "processPayment" /\ procs[s].pc = "insert" =>
      \E i \in 1..Len(payments) :
        /\ payments[i].orderId = procs[s].doc.orderId
        /\ payments[i].status = PROCESSING

\* C26: at no time have two refundPayment calls both had a refund of the
\* same payment made by the gateway.
C26_OneRefundRequest ==
  \A s, t \in 1..MaxProcs :
    /\ procs[s].op = "refundPayment"
    /\ procs[t].op = "refundPayment"
    /\ procs[s].loaded = procs[t].loaded
    => s = t

\* C27: refundPayment of a COMPLETED payment whose gateway refund is
\* reported as not succeeded changes no payment and no order and raises no
\* error.
C27_FailedRefundChangesNothing ==
  [][/\ last'.op = "refundPayment"
     /\ served' # served
     /\ last'.pid # 0
     /\ payments[last'.pid].status = COMPLETED
     /\ last'.gateway \in {"failed", "pending", "PENDING"}
     => /\ payments' = payments
        /\ orders' = orders
        /\ last'.error = "none"
        /\ ~last'.orderUpdated]_vars

C27_Witness ==
  /\ last.op = "refundPayment"
  /\ last.gateway = "pending"
  /\ last.error = "none"
  /\ payments[last.pid].status = COMPLETED
  /\ payments[last.pid].refundId = Absent
  /\ payments[last.pid].refundAmount = Absent

\* C28: a REFUNDED payment has its refundId and its refundAmount set.
C28_RefundedHasRefundFields ==
  \A i \in 1..Len(payments) :
    payments[i].status = REFUNDED =>
      payments[i].refundId # Absent /\ payments[i].refundAmount # Absent

C28_Witness ==
  /\ last.ev.type \in {"refund.created", "PAYMENT.CAPTURE.REFUNDED"}
  /\ last.pid # 0
  /\ last.notified = "refund"
  /\ payments[last.pid].status = REFUNDED

(***************************************************************************)
(* StripeService.verifyWebhook as a function of the configured secret, the *)
(* stripe-signature header, the raw body and the clock.  The header is the *)
(* sequence of its comma-separated elements, each a key and a value; a     *)
(* timestamp text is the number it spells, or NotANumber; a digest is a    *)
(* number that stands for 64 hex characters.                               *)
(***************************************************************************)
\* Math.floor(Date.now() / 1000) at the moment of the call
CurrentTime == 1000
MaxBody == 2
MaxElements == 2
\* the key this service is configured with is 1; 2 is somebody else's key
MaxKey == 2

\* a text parseInt(text, 10) makes no number of
NotANumber == -1
\* the tolerated age of a webhook, in seconds
MaxAge == 300

Bodies == 1..MaxBody
\* rawBody texts that are JSON
JsonBodies == {1}
Keys == 1..MaxKey
TimestampTexts ==
  {CurrentTime - MaxAge - 1, CurrentTime - MaxAge, CurrentTime + 1, NotANumber}

\* crypto.createHmac('sha256', key).update(timestamp + '.' + rawBody): one
\* digest for each key and payload
Hmac(key, timestamp, rawBody) ==
  ((key * 2000) + (timestamp + 1)) * 4 + rawBody

Digests == {Hmac(k, t, b) : k \in Keys, t \in TimestampTexts, b \in Bodies}

HeaderElements ==
  [key : {"t"}, value : TimestampTexts \cup {Absent}]
    \cup [key : {"v1", "v0"}, value : Digests \cup {Absent}]

Headers == UNION {[1..n -> HeaderElements] : n \in 0..MaxElements}

\* the loop over signature.split(','): a later element overwrites an
\* earlier one of the same key; a key that never occurs reads undefined
signatureElements(signature, key) ==
  LET at == {i \in 1..Len(signature) : signature[i].key = key}
  IN  IF at = {} THEN Absent
      ELSE signature[CHOOSE i \in at : \A j \in at : j <= i].value

\* currentTime - parseInt(timestamp, 10) > 300; with NaN on either side of
\* > the comparison is false
TooOld(timestamp, now) ==
  /\ timestamp # NotANumber
  /\ now - timestamp > MaxAge

VerifyFailed(reason) ==
  [ok |-> FALSE, event |-> Absent, reason |-> reason,
   error |-> "Verificacion de webhook fallo"]

verifyWebhook(webhookSecret, signature, rawBody, now) ==
  LET timestamp == signatureElements(signature, "t")
      sig == signatureElements(signature, "v1")
  IN  IF webhookSecret = Absent THEN VerifyFailed("no secret")
      ELSE IF timestamp = Absent \/ sig = Absent
        THEN VerifyFailed("format")
      ELSE IF sig # Hmac(webhookSecret, timestamp, rawBody)
        THEN VerifyFailed("signature")
      ELSE IF TooOld(timestamp, now) THEN VerifyFailed("old")
      ELSE IF rawBody \notin JsonBodies THEN VerifyFailed("json")
      ELSE [ok |-> TRUE, event |-> rawBody, reason |-> "none",
            error |-> "none"]

InitVerify ==
  /\ payments = <<>>
  /\ orders = [o \in Orders |-> [paymentStatus |-> PENDING]]
  /\ nextTxn = 1
  /\ everSettled = {}
  /\ last = Served("none", FALSE, NoEvent, 0, "none", "none", FALSE, "none",
                   FALSE) @@ Returned(TRUE, Absent)
  /\ procs = [s \in 1..MaxProcs |-> Idle]
  /\ served = 0
  /\ shop = NoShop
  /\ lru = NoCache
  /\ \E webhookSecret \in {Absent, 1}, signature \in Headers,
        rawBody \in Bodies :
       hook = [phase |-> "called", webhookSecret |-> webhookSecret,
               signature |-> signature, rawBody |-> rawBody,
               now |-> CurrentTime]

VerifyWebhookCall ==
  /\ hook.phase = "called"
  /\ hook' = [phase |-> "returned", webhookSecret |-> hook.webhookSecret,
              signature |-> hook.signature, rawBody |-> hook.rawBody,
              now |-> hook.now,
              result |-> verifyWebhook(hook.webhookSecret, hook.signature,
                                       hook.rawBody, hook.now)]
  /\ UNCHANGED <<payVars, shop, lru>>

NextVerify == VerifyWebhookCall

SpecVerify == InitVerify /\ [][NextVerify]_vars

\* the header carries a t element and a v1 element such that v1 is the HMAC
\* of t + "." + rawBody under the configured secret and t is a time at most
\* MaxAge seconds before now
SignedAndFresh(h) ==
  /\ h.webhookSecret # Absent
  /\ \E i, j \in 1..Len(h.signature) :
       /\ h.signature[i].key = "t"
       /\ h.signature[j].key = "v1"
       /\ h.signature[i].value # Absent
       /\ h.signature[j].value =
            Hmac(h.webhookSecret, h.signature[i].value, h.rawBody)
       /\ h.signature[i].value # NotANumber
       /\ h.now - h.signature[i].value <= MaxAge

\* C25: verifyWebhook returns the parsed event only when the header's v1
\* value equals the HMAC-SHA256 of timestamp + "." + rawBody under the
\* webhook secret and the timestamp is at most 300 seconds older than the
\* current time; with no secret, no t, no v1, a wrong signature or an older
\* timestamp it fails and returns no event.
C25_VerifyWebhookSignedAndFresh ==
  hook.phase = "returned" =>
    /\ hook.result.ok => SignedAndFresh(hook) /\ hook.result.event = hook.rawBody
    /\ ~SignedAndFresh(hook) =>
         ~hook.result.ok /\ hook.result.event = Absent

(***************************************************************************)
(* OrdersService.createOrder, one call for each user, split at its awaits: *)
(* the cart is read, the stock of every item is checked, the order is      *)
(* saved, the stock of every item is decremented, the cart is cleared.     *)
(* The steps of different users interleave.  A cart is the quantity it     *)
(* holds of every product, 0 for a product it has no item of.              *)
(***************************************************************************)
NumUsers == 2
NumProducts == 2
MaxStock == 2
MaxQuantity == 2

Users == 1..NumUsers
Products == 1..NumProducts
Carts == [Products -> 0..MaxQuantity]
EmptyCart == [p \in Products |-> 0]

\* the item of cart.items after item i (the first one for i = 0); 0 at the
\* end of the list
NextItem(cart, i) ==
  LET rest == {p \in Products : p > i /\ cart[p] > 0}
  IN  IF rest = {} THEN 0 ELSE CHOOSE p \in rest : \A q \in rest : p <= q

NotCalled == [pc |-> "idle", cart |-> EmptyCart, item |-> 0]

InitOrders ==
  /\ payments = <<>>
  /\ orders = [o \in Orders |-> [paymentStatus |-> PENDING]]
  /\ nextTxn = 1
  /\ everSettled = {}
  /\ last = Served("none", FALSE, NoEvent, 0, "none", "none", FALSE, "none",
                   FALSE) @@ Returned(TRUE, Absent)
  /\ procs = [s \in 1..MaxProcs |-> Idle]
  /\ served = 0
  /\ hook = NoCall
  /\ lru = NoCache
  /\ \E stock \in [Products -> 0..MaxStock], carts \in [Users -> Carts] :
       shop = [phase |-> "open", stock |-> stock, carts |-> carts,
               orders |-> {}, calls |-> [u \in Users |-> NotCalled]]

\* cartModel.findOne({ userId }); an empty cart is a BadRequestException
FindCart(u) ==
  /\ shop.phase = "open"
  /\ shop.calls[u].pc = "idle"
  /\ LET cart == shop.carts[u]
     IN  shop' = [shop EXCEPT !.calls[u] =
                    IF NextItem(cart, 0) = 0
                    THEN [pc |-> "thrown", cart |-> cart, item |-> 0]
                    ELSE [pc |-> "check", cart |-> cart,
                          item |-> NextItem(cart, 0)]]
  /\ UNCHANGED <<payVars, hook, lru>>

\* productModel.findById(item.productId) and the comparison of its stock
\* with the item's quantity
CheckStock(u) ==
  /\ shop.phase = "open"
  /\ shop.calls[u].pc = "check"
  /\ LET call == shop.calls[u]
         after == NextItem(call.cart, call.item)
     IN  shop' = [shop EXCEPT !.calls[u] =
                    IF shop.stock[call.item] < call.cart[call.item]
                    THEN [call EXCEPT !.pc = "thrown"]
                    ELSE IF after = 0
                    THEN [call EXCEPT !.pc = "save", !.item = 0]
                    ELSE [call EXCEPT !.item = after]]
  /\ UNCHANGED <<payVars, hook, lru>>

\* order.save(); the user lookup and the notification that follow write
\* nothing to the shop
SaveOrder(u) ==
  /\ shop.phase = "open"
  /\ shop.calls[u].pc = "save"
  /\ shop' = [shop EXCEPT
       !.orders = @ \cup {u},
       !.calls[u] = [@ EXCEPT !.pc = "decrement",
                              !.item = NextItem(shop.calls[u].cart, 0)]]
  /\ UNCHANGED <<payVars, hook, lru>>

\* productModel.findByIdAndUpdate(item.productId,
\*   { $inc: { stock: -item.quantity } })
DecrementStock(u) ==
  /\ shop.phase = "open"
  /\ shop.calls[u].pc = "decrement"
  /\ LET call == shop.calls[u]
         after == NextItem(call.cart, call.item)
     IN  shop' = [shop EXCEPT
           !.stock[call.item] = @ - call.cart[call.item],
           !.calls[u] = IF after = 0
                        THEN [call EXCEPT !.pc = "clear", !.item = 0]
                        ELSE [call EXCEPT !.item = after]]
  /\ UNCHANGED <<payVars, hook, lru>>

\* cartService.clearCart(userId); createOrder returns the order
ClearCart(u) ==
  /\ shop.phase = "open"
  /\ shop.calls[u].pc = "clear"
  /\ shop' = [shop EXCEPT !.carts[u] = EmptyCart,
                          !.calls[u] = [@ EXCEPT !.pc = "returned"]]
  /\ UNCHANGED <<payVars, hook, lru>>

NextOrders ==
  \/ \E u \in Users : FindCart(u)
  \/ \E u \in Users : CheckStock(u)
  \/ \E u \in Users : SaveOrder(u)
  \/ \E u \in Users : DecrementStock(u)
  \/ \E u \in Users : ClearCart(u)

SpecOrders == InitOrders /\ [][NextOrders]_vars

\* C29: whatever the interleaving of createOrder calls by different users,
\* no product's stock becomes negative.
C29_StockNeverNegative ==
  shop.phase = "open" => \A p \in Products : shop.stock[p] >= 0

(***************************************************************************)
(* LRUCacheStrategy: a Map from key to { value, expiry, lastAccessed },    *)
(* kept as the sequence of its entries in insertion order, and the clock   *)
(* Date.now() reads.  The clock may stand still between two calls.  The    *)
(* cached values play no part and are left out.                            *)
(***************************************************************************)
\* the maxSize the cache is built with
CacheMaxSize == 2
NumCacheKeys == 3
MaxClock == 2

defaultTTL == 5 * 60 * 1000
CacheKeys == 1..NumCacheKeys
\* the ttl argument of set: left out, or one tick
CacheTTLs == {Absent, 1}

CacheIndex(cache, key) ==
  LET at == {i \in 1..Len(cache) : cache[i].key = key}
  IN  IF at = {} THEN 0 ELSE CHOOSE i \in at : TRUE

\* Map.delete
CacheWithout(cache, key) ==
  SelectSeq(cache, LAMBDA e : e.key # key)

\* Map.set: an existing key keeps its place, a new one goes to the end
CachePut(cache, entry) ==
  IF CacheIndex(cache, entry.key) = 0 THEN Append(cache, entry)
  ELSE [cache EXCEPT ![CacheIndex(cache, entry.key)] = entry]

\* the loop of evictLeastRecentlyUsed: oldestTime starts at Date.now() and
\* an entry replaces the candidate only with a strictly smaller
\* lastAccessed; 0 stands for the empty oldestKey the loop starts with
OldestKey(cache, now) ==
  LET older == {i \in 1..Len(cache) : cache[i].lastAccessed < now}
  IN  IF older = {} THEN 0
      ELSE cache[CHOOSE i \in older :
                   \A j \in older :
                     \/ cache[i].lastAccessed < cache[j].lastAccessed
                     \/ (cache[i].lastAccessed = cache[j].lastAccessed
                         /\ i <= j)].key

evictLeastRecentlyUsed(cache, now) ==
  IF OldestKey(cache, now) = 0 THEN cache
  ELSE CacheWithout(cache, OldestKey(cache, now))

CacheCalled(op, key, wasNew, wasFull, before) ==
  [op |-> op, key |-> key, wasNew |-> wasNew, wasFull |-> wasFull,
   before |-> before]

InitCache ==
  /\ payments = <<>>
  /\ orders = [o \in Orders |-> [paymentStatus |-> PENDING]]
  /\ nextTxn = 1
  /\ everSettled = {}
  /\ last = Served("none", FALSE, NoEvent, 0, "none", "none", FALSE, "none",
                   FALSE) @@ Returned(TRUE, Absent)
  /\ procs = [s \in 1..MaxProcs |-> Idle]
  /\ served = 0
  /\ hook = NoCall
  /\ shop = NoShop
  /\ lru = [phase |-> "built", now |-> 0, cache |-> <<>>,
            called |-> CacheCalled("none", 0, FALSE, FALSE, <<>>)]

CacheSet ==
  /\ lru.phase = "built"
  /\ \E key \in CacheKeys, ttl \in CacheTTLs :
       LET entry == [key |-> key,
                     expiry |-> lru.now
                                  + (IF ttl = Absent THEN defaultTTL ELSE ttl),
                     lastAccessed |-> lru.now]
           isNew == CacheIndex(lru.cache, key) = 0
           full == Len(lru.cache) >= CacheMaxSize
           room == IF isNew /\ full
                   THEN evictLeastRecentlyUsed(lru.cache, lru.now)
                   ELSE lru.cache
       IN  lru' = [lru EXCEPT
             !.cache = CachePut(room, entry),
             !.called = CacheCalled("set", key, isNew, full, lru.cache)]
  /\ UNCHANGED <<payVars, hook, shop>>

CacheGet ==
  /\ lru.phase = "built"
  /\ \E key \in CacheKeys :
       LET i == CacheIndex(lru.cache, key)
       IN  lru' = [lru EXCEPT
             !.cache = IF i = 0 THEN @
                       ELSE IF lru.now > @[i].expiry
                       THEN CacheWithout(@, key)
                       ELSE [@ EXCEPT ![i].lastAccessed = lru.now],
             !.called = CacheCalled("get", key, FALSE, FALSE, lru.cache)]
  /\ UNCHANGED <<payVars, hook, shop>>

CacheHas ==
  /\ lru.phase = "built"
  /\ \E key \in CacheKeys :
       LET i == CacheIndex(lru.cache, key)
       IN  lru' = [lru EXCEPT
             !.cache = IF i # 0 /\ lru.now > @[i].expiry
                       THEN CacheWithout(@, key)
                       ELSE @,
             !.called = CacheCalled("has", key, FALSE, FALSE, lru.cache)]
  /\ UNCHANGED <<payVars, hook, shop>>

CacheDelete ==
  /\ lru.phase = "built"
  /\ \E key \in CacheKeys :
       lru' = [lru EXCEPT
         !.cache = CacheWithout(@, key),
         !.called = CacheCalled("delete", key, FALSE, FALSE, lru.cache)]
  /\ UNCHANGED <<payVars, hook, shop>>

\* time passes between two calls
ClockTick ==
  /\ lru.phase = "built"
  /\ lru.now < MaxClock
  /\ lru' = [lru EXCEPT !.now = @ + 1]
  /\ UNCHANGED <<payVars, hook, shop>>

NextCache ==
  \/ CacheSet
  \/ CacheGet
  \/ CacheHas
  \/ CacheDelete
  \/ ClockTick

SpecCache == InitCache /\ [][NextCache]_vars

\* C30: the cache built with maxSize n never holds more than n entries,
\* also when several calls read the same clock value; and a set of a new
\* key into a full cache removes an entry whose lastAccessed was the oldest.
C30_CacheWithinMaxSize ==
  lru.phase = "built" =>
    /\ Len(lru.cache) <= CacheMaxSize
    /\ lru.called.op = "set" /\ lru.called.wasNew /\ lru.called.wasFull =>
         \E i \in 1..Len(lru.called.before) :
           /\ CacheIndex(lru.cache, lru.called.before[i].key) = 0
           /\ \A j \in 1..Len(lru.called.before) :
                lru.called.before[i].lastAccessed
                  <= lru.called.before[j].lastAccessed

====
